---- MODULE Spec2Model ----
(***************************************************************************)
(* Frequency2IOP.py: frequency readings -> temperature compensation ->     *)
(* adaptive sliding-window minima -> piecewise-linear pressure.            *)
(*                                                                         *)
(* Numbers are modelled exactly: samples, temperatures, breakpoints and    *)
(* pressures are integers, and every quotient the code forms (a mean, a    *)
(* percentile, an interpolated pressure) is a normalised rational          *)
(* [num, den] with den > 0.                                                *)
(***************************************************************************)
EXTENDS Integers, Sequences, FiniteSets, TLC

VARIABLES
    pc,                 \* position of the running function
    \* apply_temperature_compensation
    freq_values, temp_celsius, ref_temp, temp_coeff_per_deg, freq_tc,
    \* adaptive_min_average / build_adaptive_series
    values, base_window, bottom_n, low_percentile, growth_factor,
    max_window_arg, mode, start_index, max_window, window_len, end, result,
    i, out,
    starts,             \* history: the start index each element of out came from
    \* calibrate_frequency_to_pressure
    freq, segments, pressure

compVars == <<freq_values, temp_celsius, ref_temp, temp_coeff_per_deg, freq_tc>>
scanArgs == <<values, base_window, bottom_n, low_percentile, growth_factor,
              max_window_arg>>
scanVars == <<mode, start_index, max_window, window_len, end, result, i, out,
              starts>>
mapVars == <<freq, segments, pressure>>
vars == <<pc, compVars, scanArgs, scanVars, mapVars>>

\* Python's None, numpy's nan, and a raised IndexError as outcomes.
None == [kind |-> "None"]
NaN == [kind |-> "nan"]
IndexError == [kind |-> "IndexError"]
\* An int argument that may also be None.
IntArg(m) == [kind |-> "int", val |-> m]

----------------------------------------------------------------------------
\* Bounds of the model.
MaxN == 4            \* longest sample sequence
MaxVal == 1          \* samples are drawn from 0..MaxVal
MaxBase == 3         \* base_window in 1..MaxBase
MaxBottom == 3       \* bottom_n in 1..MaxBottom
MaxMaxWindow == 3    \* an explicit max_window in 1..MaxMaxWindow

Vals == 0 .. MaxVal
Percentiles == {5, 50}               \* low_percentile, in percent
GrowthFactors == {<<3, 2>>, <<2, 1>>} \* growth_factor as <<numerator, denominator>> > 1

\* Every sequence over S of length at most n.
SeqsUpTo(S, n) == UNION {[1 .. m -> S] : m \in 0 .. n}

----------------------------------------------------------------------------
\* Exact arithmetic.
Abs(x) == IF x < 0 THEN -x ELSE x
Min(a, b) == IF a <= b THEN a ELSE b
Max(a, b) == IF a >= b THEN a ELSE b

RECURSIVE GCD(_, _)
GCD(a, b) == IF b = 0 THEN a ELSE GCD(b, a % b)

\* The rational n/d (d # 0) in lowest terms with a positive denominator.
Rat(n, d) ==
    LET s == IF d < 0 THEN -1 ELSE 1
        g == GCD(Abs(n), Abs(d))
    IN  [kind |-> "float", num |-> (s * n) \div g, den |-> (s * d) \div g]

RatLeq(a, b) == a.num * b.den <= b.num * a.den

RECURSIVE SumSeq(_)
SumSeq(s) == IF s = <<>> THEN 0 ELSE Head(s) + SumSeq(Tail(s))

\* x inserted into the ascending sequence s.
RECURSIVE Insert(_, _)
Insert(x, s) ==
    IF s = <<>> THEN <<x>>
    ELSE IF x <= Head(s) THEN <<x>> \o s
    ELSE <<Head(s)>> \o Insert(x, Tail(s))

RECURSIVE Sorted(_)
Sorted(s) == IF s = <<>> THEN <<>> ELSE Insert(Head(s), Sorted(Tail(s)))

----------------------------------------------------------------------------
\* adaptive_min_average

\* values[start:stop], Python's 0-based half-open slice.
Slice(vs, start, stop) == SubSeq(vs, start + 1, stop)

\* np.percentile(window, q), linear interpolation between order statistics.
percentile(window, q) ==
    LET sorted == Sorted(window)
        pos100 == (Len(window) - 1) * q
        lo == pos100 \div 100
        fr == pos100 % 100
    IN  IF fr = 0 THEN Rat(sorted[lo + 1], 1)
        ELSE Rat(100 * sorted[lo + 1] + fr * (sorted[lo + 2] - sorted[lo + 1]), 100)

\* np.count_nonzero(window <= thr)
count_very_low(window, q) ==
    LET thr == percentile(window, q)
    IN  Cardinality({k \in 1 .. Len(window) : RatLeq(Rat(window[k], 1), thr)})

\* A faulty variant of smallest: the first k elements by position, not by value.
smallest_by_position(window, k) == SubSeq(window, 1, k)

\* np.partition(window, k - 1)[:k]: the k smallest elements of window.
smallest(window, k) == SubSeq(Sorted(window), 1, k)

\* float(np.mean(s))
mean(s) == Rat(SumSeq(s), Len(s))

\* Lines 158-159 and 164-165: mean of the min(bottom_n, len(window)) smallest.
fallback(window) ==
    LET k == Min(bottom_n, Len(window))
        s == smallest(window, k)
    IN  IF Len(s) > 0 THEN mean(s) ELSE None

\* int(np.ceil(window_len * growth_factor)), plus one when that is no growth.
grown(wl) ==
    LET c == (wl * growth_factor[1] + growth_factor[2] - 1) \div growth_factor[2]
    IN  IF c = wl THEN c + 1 ELSE c

\* Entry of adaptive_min_average(values, s, ...): lines 126-134.
ScanEntry(s) ==
    /\ start_index' = s
    /\ max_window' = IF max_window_arg = None THEN 4 * base_window ELSE max_window_arg.val
    /\ end' = 0
    /\ IF s >= Len(values)
       THEN /\ result' = None
            /\ window_len' = 0
            /\ pc' = "returned"
       ELSE /\ result' = None
            /\ window_len' = base_window
            /\ pc' = "check"

\* A direct call of adaptive_min_average with any start index.
ScanCall ==
    /\ pc = "idle"
    /\ \E s \in 0 .. Len(values) :
        /\ mode' = "single"
        /\ ScanEntry(s)
    /\ UNCHANGED <<i, out, starts, compVars, scanArgs, mapVars>>

\* Top of the loop, lines 136-148.
ScanCheck ==
    /\ pc = "check"
    /\ LET e == Min(Len(values), start_index + window_len)
           window == Slice(values, start_index, e)
       IN  /\ end' = e
           /\ IF e - start_index <= 0
              THEN /\ result' = None
                   /\ pc' = "returned"
              ELSE IF count_very_low(window, low_percentile) >= bottom_n
              THEN /\ result' = mean(smallest(window, bottom_n))
                   /\ pc' = "returned"
              ELSE /\ result' = result
                   /\ pc' = "grow"
    /\ UNCHANGED <<mode, start_index, max_window, window_len, i, out, starts,
                   compVars, scanArgs, mapVars>>

\* Rest of the loop body, lines 151-165.
ScanGrow ==
    /\ pc = "grow"
    /\ LET n == Len(values)
           window == Slice(values, start_index, end)
           new_window_len == grown(window_len)
       IN  IF new_window_len > max_window /\ start_index + window_len >= n
           THEN /\ result' = fallback(window)
                /\ window_len' = window_len
                /\ pc' = "returned"
           ELSE /\ window_len' = Min(new_window_len, max_window)
                /\ IF start_index + window_len' >= n /\ end = n
                   THEN /\ result' = fallback(window)
                        /\ pc' = "returned"
                   ELSE /\ result' = result
                        /\ pc' = "check"
    /\ UNCHANGED <<mode, start_index, max_window, end, i, out, starts,
                   compVars, scanArgs, mapVars>>

----------------------------------------------------------------------------
\* build_adaptive_series

last_valid_start == Max(0, Len(values) - base_window)

\* Lines 198-203.
SeriesStart ==
    /\ pc = "idle"
    /\ mode' = "series"
    /\ i' = 0
    /\ out' = <<>>
    /\ starts' = <<>>
    /\ pc' = "series_loop"
    /\ UNCHANGED <<start_index, max_window, window_len, end, result,
                   compVars, scanArgs, mapVars>>

\* Lines 204-210: the next start index is scanned.
SeriesCall ==
    /\ pc = "series_loop"
    /\ i <= last_valid_start
    /\ ScanEntry(i)
    /\ UNCHANGED <<mode, i, out, starts, compVars, scanArgs, mapVars>>

\* Lines 211-212: a result that is not None is appended.
SeriesCollect ==
    /\ pc = "returned"
    /\ mode = "series"
    /\ out' = IF result # None THEN Append(out, result) ELSE out
    /\ starts' = IF result # None THEN Append(starts, start_index) ELSE starts
    /\ i' = i + 1
    /\ pc' = "series_loop"
    /\ UNCHANGED <<mode, start_index, max_window, window_len, end, result,
                   compVars, scanArgs, mapVars>>

\* Line 213.
SeriesReturn ==
    /\ pc = "series_loop"
    /\ i > last_valid_start
    /\ pc' = "series_done"
    /\ UNCHANGED <<compVars, scanArgs, scanVars, mapVars>>

----------------------------------------------------------------------------
\* apply_temperature_compensation

MaxTempSpan == 2     \* temperatures in 36 .. 36 + MaxTempSpan
MaxCoeff == 2        \* temp_coeff_per_deg in -1 .. MaxCoeff

Temps == 36 .. (36 + MaxTempSpan)
Coeffs == -1 .. MaxCoeff

\* A faulty variant of correction: the sign convention flipped.
correction_flipped(temp, ref, coeff) == (temp - ref) * coeff

\* Line 73.
correction(temp, ref, coeff) == (ref - temp) * coeff

\* Lines 72-74: a new array, every element shifted by the correction.
apply_temperature_compensation(fv, temp, ref, coeff) ==
    [k \in 1 .. Len(fv) |-> fv[k] + correction(temp, ref, coeff)]

Compensate ==
    /\ pc = "comp_call"
    /\ freq_tc' = apply_temperature_compensation(freq_values, temp_celsius,
                                                 ref_temp, temp_coeff_per_deg)
    /\ pc' = "comp_done"
    /\ UNCHANGED <<freq_values, temp_celsius, ref_temp, temp_coeff_per_deg,
                   scanArgs, scanVars, mapVars>>

----------------------------------------------------------------------------
\* calibrate_frequency_to_pressure

MaxF == 3            \* breakpoints are the even numbers 0, 2, .. 2 * MaxF
MaxP == 1            \* pressures in 0 .. MaxP
MaxSegs == 2         \* segments in a table

\* Breakpoints are even so that a frequency can lie strictly inside a segment
\* or strictly inside a gap between two segments.
Breakpoints == {2 * b : b \in 0 .. MaxF}
Freqs == -1 .. (2 * MaxF + 1)

RatAdd(a, b) == Rat(a.num * b.den + b.num * a.den, a.den * b.den)
RatMul(a, b) == Rat(a.num * b.num, a.den * b.den)
RatInt(n) == Rat(n, 1)

\* Segments with f_low <= f_high.
Segments ==
    {sg \in [f_low : Breakpoints, f_high : Breakpoints,
             p_at_low : 0 .. MaxP, p_at_high : 0 .. MaxP] :
        sg.f_low <= sg.f_high}

\* The table is sorted ascending by f_low and consecutive segments do not
\* overlap (they may share a boundary frequency), as the tables of
\* get_default_calibration_segments are.
SortedNonOverlapping(segs) ==
    /\ \A k \in 1 .. Len(segs) : segs[k].f_low <= segs[k].f_high
    /\ \A k \in 1 .. (Len(segs) - 1) :
          /\ segs[k].f_low <= segs[k + 1].f_low
          /\ segs[k].f_high <= segs[k + 1].f_low

\* A faulty variant of contains: the lower end excluded.
contains_open_low(seg, f) == seg.f_low < f /\ f <= seg.f_high

\* Line 254.
contains(seg, f) == seg.f_low <= f /\ f <= seg.f_high

\* Lines 256-261.
interpolate(seg, f) ==
    IF seg.f_high = seg.f_low
    THEN RatInt(seg.p_at_low)
    ELSE LET t == Rat(f - seg.f_low, seg.f_high - seg.f_low)
         IN  RatAdd(RatInt(seg.p_at_low),
                    RatMul(t, RatInt(seg.p_at_high - seg.p_at_low)))

\* Lines 271 and 281.
slope(seg) ==
    IF seg.f_high # seg.f_low
    THEN Rat(seg.p_at_high - seg.p_at_low, seg.f_high - seg.f_low)
    ELSE RatInt(0)

\* A faulty variant of first: segments[0] taken where segments[-1] is meant.
first_is_head(segs) == segs[1]

\* Line 264: first = segments[-1].
first(segs) == segs[Len(segs)]

\* Line 275: lowest = segments[0].
lowest(segs) == segs[1]

calibrate_frequency_to_pressure(f, segs) ==
    IF \E k \in 1 .. Len(segs) : contains(segs[k], f)
    THEN \* lines 251-261: the first segment in list order that contains f
         LET hit == CHOOSE k \in 1 .. Len(segs) :
                       /\ contains(segs[k], f)
                       /\ \A j \in 1 .. (k - 1) : ~contains(segs[j], f)
         IN  interpolate(segs[hit], f)
    ELSE IF segs = <<>>
    THEN \* line 264: segments[-1] of an empty list
         IndexError
    ELSE IF f > first(segs).f_high
    THEN \* lines 267-272
         RatAdd(RatInt(first(segs).p_at_high),
                RatMul(RatInt(f - first(segs).f_high), slope(first(segs))))
    ELSE IF f < lowest(segs).f_low
    THEN \* lines 278-282
         RatAdd(RatInt(lowest(segs).p_at_low),
                RatMul(RatInt(f - lowest(segs).f_low), slope(lowest(segs))))
    ELSE \* line 285
         NaN

Calibrate ==
    /\ pc = "map_call"
    /\ pressure' = calibrate_frequency_to_pressure(freq, segments)
    /\ pc' = "map_done"
    /\ UNCHANGED <<freq, segments, compVars, scanArgs, scanVars>>

----------------------------------------------------------------------------
IdleComp ==
    /\ freq_values = <<>>
    /\ temp_celsius = 0
    /\ ref_temp = 0
    /\ temp_coeff_per_deg = 0
    /\ freq_tc = <<>>

IdleMap ==
    /\ freq = 0
    /\ segments = <<>>
    /\ pressure = None

IdleScan ==
    /\ mode = "none"
    /\ start_index = 0
    /\ max_window = 0
    /\ window_len = 0
    /\ end = 0
    /\ result = None
    /\ i = 0
    /\ out = <<>>
    /\ starts = <<>>

Init ==
    /\ pc = "idle"
    /\ values \in SeqsUpTo(Vals, MaxN)
    /\ base_window \in 1 .. MaxBase
    /\ bottom_n \in 1 .. MaxBottom
    /\ low_percentile \in Percentiles
    /\ growth_factor \in GrowthFactors
    /\ max_window_arg \in {None} \cup {IntArg(m) : m \in 1 .. MaxMaxWindow}
    /\ IdleScan
    /\ IdleComp
    /\ IdleMap

IdleScanArgs ==
    /\ values = <<>>
    /\ base_window = 1
    /\ bottom_n = 1
    /\ low_percentile = 5
    /\ growth_factor = <<3, 2>>
    /\ max_window_arg = None

CompInit ==
    /\ pc = "comp_call"
    /\ freq_values \in SeqsUpTo(Vals, MaxN)
    /\ temp_celsius \in Temps
    /\ ref_temp \in Temps
    /\ temp_coeff_per_deg \in Coeffs
    /\ freq_tc = <<>>
    /\ IdleScanArgs
    /\ IdleScan
    /\ IdleMap

MapInit ==
    /\ pc = "map_call"
    /\ \E n \in 0 .. MaxSegs : segments \in [1 .. n -> Segments]
    /\ SortedNonOverlapping(segments)
    /\ freq \in Freqs
    /\ pressure = None
    /\ IdleScanArgs
    /\ IdleScan
    /\ IdleComp

Next ==
    \/ ScanCall
    \/ ScanCheck
    \/ ScanGrow
    \/ SeriesStart
    \/ SeriesCall
    \/ SeriesCollect
    \/ SeriesReturn

Spec == Init /\ [][Next]_vars

\* The loop of adaptive_min_average is sequential code: a step that can be
\* taken is taken.
\* Termination is checked for the default low_percentile and growth_factor.
FairInit == Init /\ low_percentile = 5 /\ growth_factor = <<3, 2>>

FairSpec == FairInit /\ [][Next]_vars /\ WF_vars(ScanCheck) /\ WF_vars(ScanGrow)

CompNext == Compensate

CompSpec == CompInit /\ [][CompNext]_vars

MapNext == Calibrate

MapSpec == MapInit /\ [][MapNext]_vars

----------------------------------------------------------------------------
\* Properties of adaptive_min_average and build_adaptive_series (Spec, FairSpec).

\* The final window of a returned scan, values[start_index:end].
FinalWindow == Slice(values, start_index, end)

RECURSIVE SumAt(_, _)
SumAt(w, S) ==
    IF S = {} THEN 0
    ELSE LET k == CHOOSE k \in S : TRUE IN w[k] + SumAt(w, S \ {k})

\* C1: every call of adaptive_min_average that enters the window-growth loop
\* eventually returns.
C1_ScanTerminates == (pc = "check") ~> (pc = "returned")

\* C2: build_adaptive_series returns exactly max(0, N - base_window + 1)
\* elements, the k-th one being the scan result for start index k.
C2_SeriesLength ==
    pc = "series_done" =>
        LET L == Max(0, Len(values) - base_window + 1)
        IN  /\ Len(out) = L
            /\ starts = [k \in 1 .. L |-> k - 1]

\* C5: a value returned by adaptive_min_average is the mean of exactly
\* k = min(bottom_n, size of the final window) elements of the final window,
\* and no element left out is smaller than one taken.
C5_MeanOfSmallest ==
    (pc = "returned" /\ result # None) =>
        LET w == FinalWindow
            k == Min(bottom_n, Len(w))
        IN  \E S \in SUBSET (1 .. Len(w)) :
                /\ Cardinality(S) = k
                /\ \A a \in S, b \in (1 .. Len(w)) \ S : w[a] <= w[b]
                /\ result.num * k = SumAt(w, S) * result.den

\* C5 witness: a fallback return that averages fewer than bottom_n elements, and
\* a return whose window holds a larger value before a smaller one.
C5_Witness ==
    /\ pc = "returned"
    /\ result # None
    /\ Len(FinalWindow) >= 2
    /\ bottom_n < Len(FinalWindow)
    /\ FinalWindow[1] > FinalWindow[Len(FinalWindow)]

\* C6: within one scan the window length never decreases and never exceeds
\* max_window, the initial length base_window included.
C6_WindowLenMonotoneBounded ==
    [][pc = "grow" => /\ window_len <= max_window
                      /\ window_len' >= window_len
                      /\ window_len' <= max_window]_vars

\* C7: when N >= base_window, a scan that returns a value computed it from a
\* window of at least base_window elements.
C7_WindowAtLeastBase ==
    (pc = "returned" /\ result # None /\ Len(values) >= base_window) =>
        Len(FinalWindow) >= base_window

----------------------------------------------------------------------------
\* Properties of apply_temperature_compensation (CompSpec).

\* C9: the compensated sequence has the input's length, every element is the
\* input's element plus (ref_temp - temp_celsius) * temp_coeff_per_deg, it
\* equals the input when temp_celsius = ref_temp, and the input is unchanged.
C9_Compensation ==
    [][pc = "comp_call" =>
        /\ Len(freq_tc') = Len(freq_values)
        /\ \A k \in 1 .. Len(freq_values) :
              freq_tc'[k] = freq_values[k]
                              + (ref_temp - temp_celsius) * temp_coeff_per_deg
        /\ (temp_celsius = ref_temp => freq_tc' = freq_values)
        /\ freq_values' = freq_values]_vars

\* C9 witness: a compensated sequence of several samples with a correction
\* that is not zero.
C9_Witness ==
    /\ pc = "comp_done"
    /\ Len(freq_tc) >= 2
    /\ temp_celsius # ref_temp
    /\ temp_coeff_per_deg # 0
    /\ freq_tc # freq_values

----------------------------------------------------------------------------
\* Properties of calibrate_frequency_to_pressure (MapSpec).

\* Every segment has f_low < f_high, as the data model requires.
ProperSegments(segs) == \A k \in 1 .. Len(segs) : segs[k].f_low < segs[k].f_high

\* The k-th segment contains f and no segment before it does.
FirstContaining(segs, k, f) ==
    /\ segs[k].f_low <= f /\ f <= segs[k].f_high
    /\ \A j \in 1 .. (k - 1) : ~(segs[j].f_low <= f /\ f <= segs[j].f_high)

IsPressure(p, n) == p.kind = "float" /\ p.num = n * p.den

\* C3: with an empty segment table the mapper returns an absent or invalid
\* value; it does not raise.
C3_EmptyTableNoRaise ==
    (pc = "map_done" /\ segments = <<>>) => pressure.kind \in {"None", "nan"}

\* C4 as claimed: every segment's end frequencies map to its end pressures.
C4_RoundTripEverySegment ==
    (pc = "map_done" /\ segments # <<>> /\ SortedNonOverlapping(segments)
                     /\ ProperSegments(segments)) =>
        \A k \in 1 .. Len(segments) :
            /\ freq = segments[k].f_low => IsPressure(pressure, segments[k].p_at_low)
            /\ freq = segments[k].f_high => IsPressure(pressure, segments[k].p_at_high)

\* C4 as amended: an end frequency maps to the end pressure of the first
\* segment in list order that contains it (p_at_low for a zero-width one); so
\* at a boundary shared with the previous segment the result is the previous
\* segment's p_at_high.
C4_RoundTripFirstContaining ==
    (pc = "map_done" /\ segments # <<>> /\ SortedNonOverlapping(segments)) =>
        \A k \in 1 .. Len(segments) :
            LET sg == segments[k] IN
            /\ (freq = sg.f_low /\ FirstContaining(segments, k, freq))
                  => IsPressure(pressure, sg.p_at_low)
            /\ (freq = sg.f_high /\ FirstContaining(segments, k, freq)
                                 /\ sg.f_low < sg.f_high)
                  => IsPressure(pressure, sg.p_at_high)
            /\ (k > 1 /\ freq = sg.f_low
                      /\ FirstContaining(segments, k - 1, freq)
                      /\ segments[k - 1].f_low < segments[k - 1].f_high)
                  => IsPressure(pressure, segments[k - 1].p_at_high)

\* C4 witness: the frequency is a boundary shared by two segments whose
\* pressures differ there.
C4_Witness ==
    /\ pc = "map_done"
    /\ Len(segments) = 2
    /\ segments[1].f_low < segments[1].f_high
    /\ segments[2].f_low < segments[2].f_high
    /\ freq = segments[1].f_high
    /\ freq = segments[2].f_low
    /\ segments[1].p_at_high # segments[2].p_at_low

C10_NeverNaN ==
    (pc = "map_done" /\ segments # <<>> /\ SortedNonOverlapping(segments)
                     /\ ProperSegments(segments)) =>
        pressure.kind = "float"

====
